---- MODULE Spec2Model ----
(***************************************************************************)
(* Model of aqiq_tims/services/rest.py: the TIMS/KRA fiscal-device        *)
(* integration for ERPNext Sales Invoices.                                *)
(*                                                                         *)
(* Text is modelled as sequences of one-character strings, so that        *)
(* len(), slicing, str.replace, str.split, str.lstrip and the substring   *)
(* test `a in b` are computed as Python computes them.                    *)
(*                                                                         *)
(* Money before rounding is an integer count of 1/Scale of a cent; the    *)
(* divisions of calculate_tax are exact at that resolution for the rates  *)
(* the model draws.  Payload money (after round(x, 2)) is an integer      *)
(* count of cents.  validate_payload works on the binary64 values of      *)
(* those cents (see the section on binary64 below).                       *)
(***************************************************************************)
EXTENDS Integers, Sequences, FiniteSets, TLC

VARIABLES
    pc,             \* position of the send_request call
    device_setup,   \* the 'TIMS Device Setup' single document
    doc,            \* the Sales Invoice document held by send_request
    doc_loaded,     \* the document as frappe.get_doc returned it (line 12)
    kra_before,     \* the 'KRA Response' table when send_request was called
    db,             \* database rows: customer tax id, item rows, tax flag
    kra_responses,  \* committed rows of the 'KRA Response' table
    uncommitted,    \* rows inserted in the open transaction
    tax_category,   \* build_payload local
    customer_pin,   \* build_payload local
    rct_no,         \* build_payload local
    vat_values,     \* build_payload local
    items,          \* build_payload local: the classified lines
    idx,            \* number of invoice items consumed by the loop
    item_log,       \* per consumed item: the error-log titles it produced
    payload,        \* the payload returned by create_payload
    response,       \* outcome of requests.post
    posted,         \* whether requests.post was issued
    msgs,           \* frappe message log shown to the caller (titles)
    error_log,      \* frappe Error Log titles
    exc,            \* the exception in flight, "" when none
    arg,            \* argument of the pure-function specifications
    res             \* result of the pure-function specifications

vars == << pc, device_setup, doc, doc_loaded, kra_before, db, kra_responses, uncommitted,
           tax_category, customer_pin, rct_no, vat_values, items, idx,
           item_log, payload, response, posted, msgs, error_log, exc,
           arg, res >>

NONE == "None"

(***************************************************************************)
(* Text helpers                                                            *)
(***************************************************************************)

\* Python: sub in s
Contains(s, sub) ==
    \E i \in 0..(Len(s) - Len(sub)) : SubSeq(s, i + 1, i + Len(sub)) = sub

\* Python: s[-n:]
LastN(s, n) == IF Len(s) <= n THEN s ELSE SubSeq(s, Len(s) - n + 1, Len(s))

\* Python: s[:n]
FirstN(s, n) == IF Len(s) <= n THEN s ELSE SubSeq(s, 1, n)

RECURSIVE Replace(_, _)
\* Python: s.replace(old, ''), non-overlapping occurrences left to right
Replace(s, old) ==
    IF Len(s) < Len(old) THEN s
    ELSE IF SubSeq(s, 1, Len(old)) = old
         THEN Replace(SubSeq(s, Len(old) + 1, Len(s)), old)
         ELSE << s[1] >> \o Replace(Tail(s), old)

RECURSIVE Split(_, _)
\* Python: s.split(sep) for a one-character separator
Split(s, sep) ==
    IF \A i \in 1..Len(s) : s[i] # sep THEN << s >>
    ELSE LET k == CHOOSE i \in 1..Len(s) :
                      s[i] = sep /\ \A j \in 1..(i - 1) : s[j] # sep
         IN << SubSeq(s, 1, k - 1) >> \o Split(SubSeq(s, k + 1, Len(s)), sep)

RECURSIVE LStrip(_, _)
\* Python: s.lstrip(ch)
LStrip(s, ch) ==
    IF s # << >> /\ s[1] = ch THEN LStrip(Tail(s), ch) ELSE s

RECURSIVE Concat(_)
Concat(ss) == IF ss = << >> THEN << >> ELSE ss[1] \o Concat(Tail(ss))

(***************************************************************************)
(* VAT Aggregator                                                          *)
(***************************************************************************)

VatKeys == { "VAT_A_NET", "VAT_A", "VAT_B_NET", "VAT_B", "VAT_C_NET", "VAT_C",
             "VAT_D_NET", "VAT_D", "VAT_E_NET", "VAT_E", "VAT_F_NET", "VAT_F" }

initialize_vat_values == [k \in VatKeys |-> 0]

L_VAT16     == << "V", "A", "T", " ", "1", "6", "%" >>
L_VATIG     == << "V", "A", "T", " ", "-", " ", "I", "G" >>
L_ZeroRated == << "Z", "e", "r", "o", " ", "R", "a", "t", "e", "d" >>
L_Exempt    == << "E", "x", "e", "m", "p", "t" >>

\* dict literal of update_vat_values, in insertion (= iteration) order
kra_tax_mapping ==
    << [template_name |-> L_VAT16,     net_key |-> "VAT_A_NET", tax_key |-> "VAT_A"],
       [template_name |-> L_VATIG,     net_key |-> "VAT_A_NET", tax_key |-> "VAT_A"],
       [template_name |-> L_ZeroRated, net_key |-> "VAT_E_NET", tax_key |-> "VAT_E"],
       [template_name |-> L_Exempt,    net_key |-> "VAT_F_NET", tax_key |-> "VAT_F"] >>

\* the first mapping entry whose name occurs in the label, 0 when none does
FirstMatch(tax_type) ==
    IF \E i \in 1..Len(kra_tax_mapping) :
           Contains(tax_type, kra_tax_mapping[i].template_name)
    THEN CHOOSE i \in 1..Len(kra_tax_mapping) :
           /\ Contains(tax_type, kra_tax_mapping[i].template_name)
           /\ \A j \in 1..(i - 1) :
                  ~Contains(tax_type, kra_tax_mapping[j].template_name)
    ELSE 0

\* the branch `if tax_key != "VAT_E" and tax_key != "VAT_F"` with every tax key
\* accepted
TakesTaxMutant(tax_key) == TRUE

TakesTax(tax_key) == tax_key # "VAT_E" /\ tax_key # "VAT_F"

\* bucket A taken as the default bucket
DefaultNetKeyMutant == "VAT_A_NET"

\* the bucket of a line whose label is empty or matches no mapping entry
DefaultNetKey == "VAT_E_NET"

\* update_vat_values: the updated dict and the error-log titles written
update_vat_values(vv, tax_type, taxable_amount, tax_amount) ==
    IF tax_type = << >>
    THEN [vat |-> [vv EXCEPT ![DefaultNetKey] = @ + taxable_amount],
          log |-> << >>]
    ELSE LET i == FirstMatch(tax_type) IN
         IF i # 0
         THEN LET m  == kra_tax_mapping[i]
                  v1 == [vv EXCEPT ![m.net_key] = @ + taxable_amount]
              IN [vat |-> IF TakesTax(m.tax_key)
                          THEN [v1 EXCEPT ![m.tax_key] = @ + tax_amount]
                          ELSE v1,
                  log |-> << >>]
         ELSE [vat |-> [vv EXCEPT ![DefaultNetKey] = @ + taxable_amount],
               log |-> << "TIMS Tax Mapping Error" >>]

(***************************************************************************)
(* Money                                                                   *)
(***************************************************************************)

\* amounts before rounding count 1/Scale of a cent: 100 * Scale is divisible
\* by 100 + 16, so the Inclusive division of a 16% rate is exact
Scale == 29 * 100

\* Python: round(float(x), 2) on an amount >= 0, to whole cents; a value that
\* is equally close to two cents goes to the even one
Round2(x) ==
    LET q == x \div Scale
        r == x % Scale
    IN IF 2 * r < Scale THEN q
       ELSE IF 2 * r > Scale THEN q + 1
       ELSE IF q % 2 = 0 THEN q ELSE q + 1

\* abs() left out: the signed value is used
AbsMutant(x) == x

\* Python: abs(x)
Abs(x) == IF x < 0 THEN 0 - x ELSE x

(***************************************************************************)
(* Tax Rate Resolver and Line Classifier                                   *)
(***************************************************************************)

\* get_tax_rate_from_template: the detail row's rate, 0 when there is none
get_tax_rate_from_template(templates, template_name) ==
    IF template_name = NONE THEN 0
    ELSE IF templates[template_name].detail = << >> THEN 0
    ELSE templates[template_name].detail[1]

create_zero_rated_item(item) ==
    LET new_item == [productCode |-> item.item_code,
                     quantity    |-> Abs(item.qty),
                     unitPrice   |-> Abs(item.rate),
                     discount    |-> 0,
                     taxtype     |-> 0]
    IN [new_item       |-> new_item,
        taxable_amount |-> new_item.quantity * new_item.unitPrice * Scale,
        tax_amount     |-> 0,
        log            |-> << "TIMS Tax Calculation" >>]

\* calculate_tax: the classified line, its taxable base and its tax
calculate_tax(templates, item, category) ==
    IF item.item_tax_template = NONE
    THEN create_zero_rated_item(item)
    ELSE LET tax_rate   == get_tax_rate_from_template(templates, item.item_tax_template)
             qty        == Abs(item.qty)
             unit_price == Abs(item.rate)
             new_item   == [productCode |-> item.item_code,
                            quantity    |-> qty,
                            unitPrice   |-> unit_price,
                            discount    |-> 0,
                            taxtype     |-> tax_rate]
             taxable    == IF tax_rate = 0
                           THEN unit_price * qty * Scale
                           ELSE IF category = "Inclusive"
                                THEN (unit_price * qty * Scale * 100)
                                         \div (100 + tax_rate)
                                ELSE unit_price * qty * Scale
             tax        == IF tax_rate = 0 THEN 0
                           ELSE (taxable * tax_rate) \div 100
         IN [new_item       |-> new_item,
             taxable_amount |-> taxable,
             tax_amount     |-> tax,
             log            |-> << >>]

(***************************************************************************)
(* Payload Assembler                                                       *)
(***************************************************************************)

\* the invoice_number the 'KRA Response' lookup of create_payload filters on
LookupName(d) == d.name

\* frappe.db.get_value("KRA Response", {"invoice_number": name}, "cuin"):
\* the cuin of a committed or same-transaction row, None when there is none
get_cuin(rows, name) ==
    IF \E i \in 1..Len(rows) : rows[i].invoice_number = name
    THEN rows[CHOOSE i \in 1..Len(rows) :
                 /\ rows[i].invoice_number = name
                 /\ \A j \in 1..(i - 1) : rows[j].invoice_number # name].cuin
    ELSE NONE

\* the sum with the last element of the list, the net of F, left out
PayloadTotalMutant(vv) ==
      (vv["VAT_A_NET"] + vv["VAT_A"]) + (vv["VAT_B_NET"] + vv["VAT_B"])
    + (vv["VAT_C_NET"] + vv["VAT_C"]) + (vv["VAT_D_NET"] + vv["VAT_D"])
    + vv["VAT_E_NET"]

\* the sum create_payload takes over the bucket dict
PayloadTotal(vv) ==
      (vv["VAT_A_NET"] + vv["VAT_A"]) + (vv["VAT_B_NET"] + vv["VAT_B"])
    + (vv["VAT_C_NET"] + vv["VAT_C"]) + (vv["VAT_D_NET"] + vv["VAT_D"])
    + vv["VAT_E_NET"] + vv["VAT_F_NET"]

create_payload(d, rows, vv, its, payment_method, pin, till_no, rct) ==
    [saleType    |-> IF ~d.is_return THEN "sales" ELSE "refund",
     cuin        |-> IF ~d.is_return THEN "" ELSE get_cuin(rows, LookupName(d)),
     till        |-> till_no,
     rctNo       |-> rct,
     total       |-> Round2(PayloadTotal(vv)),
     Paid        |-> Round2(PayloadTotal(vv)),
     Payment     |-> payment_method,
     CustomerPIN |-> pin,
     VAT_A_Net   |-> Round2(vv["VAT_A_NET"]),
     VAT_A       |-> Round2(vv["VAT_A"]),
     VAT_B_Net   |-> Round2(vv["VAT_B_NET"]),
     VAT_B       |-> Round2(vv["VAT_B"]),
     VAT_C_Net   |-> Round2(vv["VAT_C_NET"]),
     VAT_C       |-> Round2(vv["VAT_C"]),
     VAT_D_Net   |-> Round2(vv["VAT_D_NET"]),
     VAT_D       |-> Round2(vv["VAT_D"]),
     VAT_E_Net   |-> Round2(vv["VAT_E_NET"]),
     VAT_E       |-> Round2(vv["VAT_E"]),
     VAT_F_Net   |-> Round2(vv["VAT_F_NET"]),
     VAT_F       |-> Round2(vv["VAT_F"]),
     data        |-> its]

(***************************************************************************)
(* binary64                                                                *)
(*                                                                         *)
(* The payload's money fields are Python floats holding two-decimal       *)
(* values, and so are the invoice's grand_total and                       *)
(* total_taxes_and_charges.  validate_payload adds, subtracts and         *)
(* compares them as IEEE 754 binary64 numbers.  A binary64 value x near   *)
(* c cents is the pair [c, n] with x = c/100 + n/(100 * 2^59): 2^-59 is   *)
(* the spacing of binary64 at 0.01, the smallest amount, so every value   *)
(* here is a whole multiple of it.  Each operation takes the exact        *)
(* result and rounds it to the nearest binary64, ties to even; the        *)
(* remainders needed are computed modulo 100 * ulp, which stays small.    *)
(***************************************************************************)

\* largest binary exponent of an amount: amounts stay below 2^(MaxExp+1)
MaxExp == 6

RECURSIVE Pow2(_)
Pow2(k) == IF k = 0 THEN 1 ELSE 2 * Pow2(k - 1)

RECURSIVE Pow2Mod(_, _)
Pow2Mod(k, m) == IF k = 0 THEN 1 % m ELSE (2 * Pow2Mod(k - 1, m)) % m

\* whether 2^e <= c/100
AtLeastPow2(c, e) ==
    IF e >= 0 THEN 100 * Pow2(e) <= c ELSE 100 <= c * Pow2(0 - e)

\* whether 2^e = c/100
IsPow2(c, e) ==
    IF e >= 0 THEN 100 * Pow2(e) = c ELSE 100 = c * Pow2(0 - e)

\* floor(log2(c/100)) for c >= 1
Binade(c) ==
    CHOOSE k \in (0 - 7)..MaxExp :
        AtLeastPow2(c, k) /\ (k = MaxExp \/ ~AtLeastPow2(c, k + 1))

\* floor(log2(x)) of the exact value x = c/100 + n/(100 * 2^59), c >= 1, given
\* e = Binade(c): one less when x lies just below the power of two c/100
ExponentAt(c, n, e) == IF IsPow2(c, e) /\ n < 0 THEN e - 1 ELSE e

\* the neighbour of the exact value [c, n] on the binary64 grid of spacing
\* ulp/2^59: t is 100 times the distance to the grid point below, odd the
\* parity of that grid point
Nearest(c, n, ulp, t, odd) ==
    IF 2 * t < 100 * ulp THEN [c |-> c, n |-> n - t]
    ELSE IF 2 * t > 100 * ulp THEN [c |-> c, n |-> n + 100 * ulp - t]
    ELSE IF odd = 0 THEN [c |-> c, n |-> n - t]
    ELSE [c |-> c, n |-> n + 100 * ulp - t]

\* r is 100 * 2^59 * x modulo 200 * ulp
RoundRem(c, n, ulp, r) ==
    Nearest(c, n, ulp, r % (100 * ulp), r \div (100 * ulp))

RoundUlp(c, n, e, ulp) ==
    RoundRem(c, n, ulp,
             (ulp * ((c * Pow2Mod(52 - e, 200)) % 200) + n) % (200 * ulp))

RoundAt(c, n, e) == RoundUlp(c, n, e, Pow2(e + 7))

\* the binary64 nearest to the exact value c/100 + n/(100 * 2^59), c >= 1
FRoundPos(c, n) == RoundAt(c, n, ExponentAt(c, n, Binade(c)))

Neg(x) == [c |-> 0 - x.c, n |-> 0 - x.n]

\* the binary64 nearest to the exact value c/100 + n/(100 * 2^59); a value
\* with c = 0 is a difference of two neighbours and is exact
FRound(c, n) ==
    IF c = 0 THEN [c |-> 0, n |-> n]
    ELSE IF c < 0 THEN Neg(FRoundPos(0 - c, 0 - n))
    ELSE FRoundPos(c, n)

\* the float a two-decimal value is held as
Float(cents) == FRound(cents, 0)

FAdd(x, y) == FRound(x.c + y.c, x.n + y.n)

FSub(x, y) == FRound(x.c - y.c, x.n - y.n)

FAbs(x) == IF x.c < 0 \/ (x.c = 0 /\ x.n < 0) THEN Neg(x) ELSE x

FGreater(x, y) == x.c > y.c \/ (x.c = y.c /\ x.n > y.n)

RECURSIVE SumSeq(_)
\* Python: sum(list) up to 3.11, left to right from the int 0
SumSeq(xs) ==
    IF xs = << >> THEN [c |-> 0, n |-> 0]
    ELSE FAdd(SumSeq(SubSeq(xs, 1, Len(xs) - 1)), xs[Len(xs)])

RECURSIVE ExactSum(_)
ExactSum(xs) ==
    IF xs = << >> THEN [c |-> 0, n |-> 0]
    ELSE LET r == ExactSum(Tail(xs)) IN [c |-> xs[1].c + r.c, n |-> xs[1].n + r.n]

\* Python: sum(list) from 3.12 on, compensated: the exact sum rounded once
SumCompensated(xs) == LET r == ExactSum(xs) IN FRound(r.c, r.n)

PySum(xs, compensated) == IF compensated THEN SumCompensated(xs) ELSE SumSeq(xs)

(***************************************************************************)
(* Payload Validator                                                       *)
(***************************************************************************)

\* the literal 0.01 of validate_payload, in cents
Tolerance == 1

\* Python: abs(x - y) > 0.01
Exceeds(x, y) == FGreater(FAbs(FSub(x, y)), Float(Tolerance))

\* the first item validate_payload rejects, 0 when it rejects none
BadItem(data) ==
    IF \E i \in 1..Len(data) : data[i].quantity <= 0 \/ data[i].unitPrice <= 0
    THEN CHOOSE i \in 1..Len(data) :
           /\ data[i].quantity <= 0 \/ data[i].unitPrice <= 0
           /\ \A j \in 1..(i - 1) : data[j].quantity > 0 /\ data[j].unitPrice > 0
    ELSE 0

\* validate_payload: "" when it returns, else the message frappe.throw raises
validate_payload(p, d, compensated) ==
    LET calculated_total ==
            PySum(<< FAdd(Float(p.VAT_A_Net), Float(p.VAT_A)),
                     FAdd(Float(p.VAT_B_Net), Float(p.VAT_B)),
                     FAdd(Float(p.VAT_C_Net), Float(p.VAT_C)),
                     FAdd(Float(p.VAT_D_Net), Float(p.VAT_D)),
                     Float(p.VAT_E_Net),
                     Float(p.VAT_F_Net) >>, compensated)
        total_tax ==
            PySum(<< Float(p.VAT_A), Float(p.VAT_B),
                     Float(p.VAT_C), Float(p.VAT_D) >>, compensated)
        bad == BadItem(p.data)
    IN IF Exceeds(calculated_total, Float(d.grand_total))
       THEN "Total mismatch"
       ELSE IF Exceeds(total_tax, Float(d.total_taxes_and_charges))
       THEN "Tax mismatch"
       ELSE IF bad = 0 THEN ""
       ELSE IF p.data[bad].quantity <= 0 THEN "Invalid quantity"
       ELSE "Invalid unit price"

(***************************************************************************)
(* Reference Formatter                                                     *)
(***************************************************************************)

\* KRA's limit on the receipt number
MaxLen == 18

ACC == << "A", "C", "C", "-" >>

\* the slice [:18] of the three-part branch left out
TruncateMutant(s) == s

\* Python: formatted[:18]
Truncate(s) == FirstN(s, MaxLen)

format_invoice_number(invoice_number) ==
    IF Len(invoice_number) <= MaxLen THEN invoice_number
    ELSE LET parts == Split(Replace(invoice_number, ACC), "-") IN
         IF Len(parts) = 3
         THEN LET year   == LastN(parts[2], 2)
                  number == LStrip(parts[3], "0")
              IN Truncate(parts[1] \o year \o number)
         ELSE LastN(invoice_number, MaxLen)

(***************************************************************************)
(* Customer PIN                                                            *)
(***************************************************************************)

Upper == { "A", "B", "C", "D", "E", "F", "G", "H", "I", "J", "K", "L", "M",
           "N", "O", "P", "Q", "R", "S", "T", "U", "V", "W", "X", "Y", "Z" }

Digit == { "0", "1", "2", "3", "4", "5", "6", "7", "8", "9" }

\* re.match(r'^[A-Z][0-9]{9}[A-Z]$', pin)
MatchesPin(pin) ==
    /\ Len(pin) = 11
    /\ pin[1] \in Upper
    /\ \A i \in 2..10 : pin[i] \in Digit
    /\ pin[11] \in Upper

\* validate_customer_pin: the pin it returns and the error-log titles written
validate_customer_pin(pin) ==
    IF pin = << >> THEN [pin |-> << >>, log |-> << >>]
    ELSE IF ~MatchesPin(pin) THEN [pin |-> pin, log |-> << "TIMS Validation" >>]
    ELSE [pin |-> pin, log |-> << >>]

(***************************************************************************)
(* Data the model draws from                                               *)
(***************************************************************************)

\* longest item list of an invoice
MaxItems == 2

L_Long == << "K", "E", " " >> \o L_VAT16
L_Levy == << "L", "e", "v", "y" >>

\* 'Item Tax Template' rows by name: the title and the tax_rate of the
\* 'Item Tax Template Detail' rows
Templates ==
    [ T16     |-> [title |-> L_VAT16,     detail |-> << 16 >>],
      TIG     |-> [title |-> L_VATIG,     detail |-> << 16 >>],
      TLong   |-> [title |-> L_Long,      detail |-> << 16 >>],
      TZero   |-> [title |-> L_ZeroRated, detail |-> << 0 >>],
      TZero16 |-> [title |-> L_ZeroRated, detail |-> << 16 >>],
      TExempt |-> [title |-> L_Exempt,    detail |-> << >>],
      TLevy   |-> [title |-> L_Levy,      detail |-> << 16 >>],
      TBlank  |-> [title |-> << >>,       detail |-> << 16 >>] ]

\* what the joins of get_invoice_items attach to a line: the template name and
\* the template's title (empty when the join finds none)
TaxLinks ==
    { [item_tax_template |-> t, title |-> Templates[t].title] :
          t \in DOMAIN Templates }
    \cup { [item_tax_template |-> NONE, title |-> << >>] }

Goods == { [item_code |-> "PEN",  qty |-> 1,     rate |-> 100],
           [item_code |-> "INK",  qty |-> 0 - 2, rate |-> 116] }

FreeGoods == { [item_code |-> "GIFT", qty |-> 1, rate |-> 0] }

Row(g, l) == [item_code |-> g.item_code, qty |-> g.qty, rate |-> g.rate,
              item_tax_template |-> l.item_tax_template, title |-> l.title]

\* rows get_invoice_items can return
Rows == { Row(g, l) : g \in Goods, l \in TaxLinks }
        \cup { Row(g, [item_tax_template |-> "TZero", title |-> L_ZeroRated]) :
                   g \in FreeGoods }

\* the rows of the end-to-end specification
SendRows == { Row(g, [item_tax_template |-> "T16", title |-> L_VAT16]) :
                  g \in Goods \cup FreeGoods }

RECURSIVE Lists(_, _)
\* the sequences over S of length at most n
Lists(S, n) ==
    IF n = 0 THEN { << >> }
    ELSE LET shorter == Lists(S, n - 1)
         IN shorter \cup { Append(l, x) : l \in { k \in shorter : Len(k) = n - 1 },
                                          x \in S }

N_SALE   == ACC \o << "S", "I", "N", "V", "-", "2", "0", "2", "4", "-",
                      "0", "0", "0", "0", "7" >>
N_RETURN == ACC \o << "S", "I", "N", "V", "-", "2", "0", "2", "4", "-",
                      "0", "0", "0", "0", "9" >>

PIN_OK  == << "P", "0", "5", "1", "2", "3", "4", "5", "6", "7", "Z" >>
PIN_BAD == << "P", "0", "5" >>

(***************************************************************************)
(* The state send_request starts from                                      *)
(***************************************************************************)

RECURSIVE Accumulate(_, _, _)
\* the bucket dict the loop of build_payload reaches from vv over the rows
Accumulate(rows, category, vv) ==
    IF rows = << >> THEN vv
    ELSE LET r == calculate_tax(Templates, rows[1], category)
         IN Accumulate(Tail(rows), category,
                update_vat_values(vv, rows[1].title,
                                  r.taxable_amount, r.tax_amount).vat)

\* get_tax_category
get_tax_category(included_in_print_rate) ==
    IF included_in_print_rate = 1 THEN "Inclusive" ELSE "Exclusive"

\* how far the invoice's recorded totals are from what its lines add up to
Drifts == { 0, 2 }

NoConfirmation ==
    [custom_tims_code |-> "", custom_tsin |-> "", custom_cusn |-> "",
     custom__cuin |-> "", custom_kra_qr_code |-> "", custom_signing_time |-> "",
     custom_sent_to_kra |-> 0]

PriorConfirmation ==
    [custom_tims_code |-> "000", custom_tsin |-> "TSIN-0", custom_cusn |-> "CUSN-0",
     custom__cuin |-> "CUIN-0", custom_kra_qr_code |-> "QR-0",
     custom_signing_time |-> "T0", custom_sent_to_kra |-> 1]

\* docstatus, status and confirmation of the invoices drawn
DocStates ==
    { [docstatus |-> 0, status |-> "Draft",  conf |-> NoConfirmation],
      [docstatus |-> 1, status |-> "Paid",   conf |-> NoConfirmation],
      [docstatus |-> 1, status |-> "Unpaid", conf |-> PriorConfirmation] }

DocIdentities ==
    { [name |-> N_SALE,   is_return |-> FALSE, return_against |-> << >>],
      [name |-> N_RETURN, is_return |-> TRUE,  return_against |-> N_SALE] }

MakeDoc(id, st, today, grand, taxes) ==
    [name |-> id.name, is_return |-> id.is_return,
     return_against |-> id.return_against,
     posting_today |-> today, status |-> st.status, docstatus |-> st.docstatus,
     grand_total |-> grand, total_taxes_and_charges |-> taxes,
     conf |-> st.conf]

KraRow(name, cuin, code) ==
    [invoice_number |-> name, cuin |-> cuin, response_code |-> code]

\* 'KRA Response' tables an invoice can meet: empty, or holding the record
\* of the accepted sale
KraTables ==
    { << >>,
      << KraRow(N_SALE, "CUIN-SALE", "000") >> }

DeviceSetups ==
    { [status |-> "Active",   allow_other_day_posting |-> TRUE,  ip |-> "10.0.0.5", port |-> "8080"],
      [status |-> "Active",   allow_other_day_posting |-> FALSE, ip |-> "10.0.0.5", port |-> "8080"],
      [status |-> "Active",   allow_other_day_posting |-> TRUE,  ip |-> "",         port |-> "8080"],
      [status |-> "Inactive", allow_other_day_posting |-> FALSE, ip |-> "10.0.0.5", port |-> "8080"] }

NoPayload  == [saleType |-> NONE]
NoResponse == [kind |-> NONE]
NoExc      == [type |-> "", msg |-> ""]

Locals ==
    /\ tax_category = NONE
    /\ customer_pin = << >>
    /\ rct_no = << >>
    /\ vat_values = initialize_vat_values
    /\ items = << >>
    /\ idx = 0
    /\ item_log = << >>
    /\ payload = NoPayload
    /\ response = NoResponse
    /\ posted = FALSE
    /\ msgs = << >>
    /\ error_log = << >>
    /\ exc = NoExc
    /\ uncommitted = << >>

InitProcess(setups, ids, todays, states, itemLists, pins, drifts, tables) ==
    /\ pc = "send_request"
    /\ device_setup \in setups
    /\ \E id \in ids, st \in states, today \in todays,
          its \in itemLists, incl \in { 0, 1 }, pin \in pins,
          dg \in drifts, dt \in drifts :
          LET vv == Accumulate(its, get_tax_category(incl), initialize_vat_values)
              p  == create_payload(MakeDoc(id, st, today, 0, 0), << >>, vv,
                                   << >>, "", << >>, "", << >>)
          IN /\ doc = MakeDoc(id, st, today, p.total + dg,
                              p.VAT_A + p.VAT_B + p.VAT_C + p.VAT_D + dt)
             /\ db = [tax_id |-> pin, items |-> its,
                      included_in_print_rate |-> incl]
    /\ doc_loaded = doc
    /\ kra_responses \in tables
    /\ kra_before = kra_responses
    /\ Locals
    /\ arg = NONE
    /\ res = NONE

Init ==
    InitProcess(DeviceSetups, DocIdentities, BOOLEAN, DocStates,
                Lists(SendRows, MaxItems) \ { << >> }, { PIN_OK }, Drifts,
                KraTables)

(***************************************************************************)
(* send_request, one action per function or except clause                  *)
(***************************************************************************)

Msg(title, msg) == [title |-> title, msg |-> msg]

\* handle_exception: an Error Log entry and the generic message
HandledLog  == Append(error_log, "TIMS KRA Error.")
HandledMsgs == Append(msgs, Msg("Error Message", "Something Wrong"))

buildLocals == << tax_category, customer_pin, rct_no, vat_values, items, idx,
                  item_log, payload >>
stored      == << device_setup, doc_loaded, kra_before, db, kra_responses,
                 uncommitted >>
pure        == << arg, res >>

\* send_request, lines 10-29: the two guards and their messages
SendRequest ==
    /\ pc = "send_request"
    /\ IF device_setup.status = "Active"
       THEN IF doc.posting_today \/ device_setup.allow_other_day_posting
            THEN pc' = "build_payload" /\ msgs' = msgs
            ELSE /\ pc' = "returned"
                 /\ msgs' = Append(msgs, Msg("Error Message", "Posting Date"))
       ELSE /\ pc' = "returned"
            /\ msgs' = Append(msgs, Msg("Error Message", "Not Active"))
    /\ UNCHANGED << doc, buildLocals, stored, pure, response, posted,
                    error_log, exc >>

\* build_payload, lines 51-59
BuildPayload ==
    /\ pc = "build_payload"
    /\ LET v == validate_customer_pin(db.tax_id)
       IN /\ customer_pin' = v.pin
          /\ error_log' = error_log \o v.log
    /\ rct_no' = format_invoice_number(doc.name)
    /\ tax_category' = get_tax_category(db.included_in_print_rate)
    /\ vat_values' = initialize_vat_values
    /\ items' = << >>
    /\ idx' = 0
    /\ pc' = "loop"
    /\ UNCHANGED << doc, item_log, payload, stored, pure, response, posted,
                    msgs, exc >>

\* build_payload, lines 61-65: one turn of the loop
ClassifyItem ==
    /\ pc = "loop"
    /\ idx < Len(db.items)
    /\ LET item == db.items[idx + 1]
           r    == calculate_tax(Templates, item, tax_category)
           u    == update_vat_values(vat_values, item.title,
                                     r.taxable_amount, r.tax_amount)
       IN /\ vat_values' = u.vat
          /\ items' = Append(items, r.new_item)
          /\ item_log' = Append(item_log, r.log \o u.log)
          /\ error_log' = error_log \o r.log \o u.log
    /\ idx' = idx + 1
    /\ UNCHANGED << pc, doc, tax_category, customer_pin, rct_no, payload,
                    stored, pure, response, posted, msgs, exc >>

\* build_payload, line 67
CreatePayload ==
    /\ pc = "loop"
    /\ idx = Len(db.items)
    /\ payload' = create_payload(doc, kra_responses \o uncommitted, vat_values,
                                 items,
                                 IF doc.status = "Paid" THEN "Cash" ELSE "Credit",
                                 customer_pin, "", rct_no)
    /\ pc' = "validate_payload"
    /\ UNCHANGED << doc, tax_category, customer_pin, rct_no, vat_values, items,
                    idx, item_log, stored, pure, response, posted, msgs,
                    error_log, exc >>

\* a finding that is logged and does not raise
ThrowsMutant(v) == FALSE

\* whether validate_payload leaves through frappe.throw
Throws(v) == v # ""

\* build_payload, line 68: validate_payload returns or throws; the sum of the
\* interpreter at hand is either the plain or the compensated one
ValidatePayload ==
    /\ pc = "validate_payload"
    /\ \E compensated \in BOOLEAN :
          LET v == validate_payload(payload, doc, compensated)
          IN IF ~Throws(v)
             THEN /\ pc' = "send_payload"
                  /\ UNCHANGED << msgs, exc >>
             ELSE /\ pc' = "except_send_request"
                  /\ msgs' = Append(msgs, Msg(NONE, v))
                  /\ exc' = [type |-> "ValidationError", msg |-> v]
    /\ UNCHANGED << doc, buildLocals, stored, pure, response, posted,
                    error_log >>

\* what requests.post can come back with
RequiredFields == { "ResponseCode", "Message", "TSIN", "CUSN", "CUIN",
                    "QRCode", "dtStmp" }

DeviceData(code) ==
    [ResponseCode |-> code, Message |-> "msg", TSIN |-> "TSIN-1",
     CUSN |-> "CUSN-1", CUIN |-> "CUIN-1", QRCode |-> "QR-1", dtStmp |-> "T1"]

Restrict(f, S) == [k \in S |-> f[k]]

Http(ok, json, data) == [kind |-> "response", ok |-> ok, json |-> json, data |-> data]

Responses ==
    { Http(TRUE,  TRUE,  DeviceData("000")),
      Http(TRUE,  TRUE,  DeviceData("001")),
      Http(TRUE,  TRUE,  Restrict(DeviceData("000"), RequiredFields \ { "CUIN" })),
      Http(TRUE,  FALSE, Restrict(DeviceData("000"), { })),
      Http(FALSE, TRUE,  DeviceData("000")),
      Http(FALSE, FALSE, Restrict(DeviceData("000"), { })) }

PostOutcomes == Responses \cup { [kind |-> "Timeout"], [kind |-> "RequestException"] }

\* send_payload, lines 255-266
SendPayload ==
    /\ pc = "send_payload"
    /\ IF device_setup.ip = "" \/ device_setup.port = ""
       THEN /\ exc' = [type |-> "ValueError", msg |-> "Invalid device setup configuration"]
            /\ pc' = "except_send_payload"
            /\ UNCHANGED << response, posted >>
       ELSE /\ posted' = TRUE
            /\ \E r \in PostOutcomes :
                  /\ response' = r
                  /\ pc' = CASE r.kind = "Timeout" -> "except_timeout"
                             [] r.kind = "RequestException" -> "except_request"
                             [] OTHER -> "handle_response"
            /\ exc' = exc
    /\ UNCHANGED << doc, buildLocals, stored, pure, msgs, error_log >>

\* send_payload, lines 267-272
ExceptTimeout ==
    /\ pc = "except_timeout"
    /\ error_log' = Append(error_log, "TIMS Error")
    /\ msgs' = Append(msgs, Msg("Timeout Error", "Request timed out"))
    /\ exc' = [type |-> "ValidationError", msg |-> "Request timed out"]
    /\ pc' = "except_send_request"
    /\ UNCHANGED << doc, buildLocals, stored, pure, response, posted >>

\* send_payload, lines 273-278
ExceptRequestException ==
    /\ pc = "except_request"
    /\ error_log' = Append(error_log, "TIMS Error")
    /\ msgs' = Append(msgs, Msg("Connection Error", "Failed to communicate"))
    /\ exc' = [type |-> "ValidationError", msg |-> "Failed to communicate"]
    /\ pc' = "except_send_request"
    /\ UNCHANGED << doc, buildLocals, stored, pure, response, posted >>

\* the KRA Response row left in the open transaction
InsertOnlyMutant(committed, pending, row) ==
    [committed |-> committed, pending |-> Append(pending, row)]

\* kra_response.insert() and frappe.db.commit(), lines 313-314
InsertAndCommit(committed, pending, row) ==
    [committed |-> committed \o Append(pending, row), pending |-> << >>]

\* the test of the response code left out
AcceptedMutant(data) == TRUE

\* handle_response, line 316
Accepted(data) == data["ResponseCode"] = "000"

\* handle_response, lines 284-324
HandleResponse ==
    /\ pc = "handle_response"
    /\ IF ~response.ok
       THEN /\ msgs' = Append(msgs, Msg(NONE, "TIMS server returned error"))
            /\ exc' = [type |-> "ValidationError", msg |-> "TIMS server returned error"]
            /\ pc' = "except_send_payload"
            /\ UNCHANGED << kra_responses, uncommitted, error_log >>
       ELSE IF ~response.json
       THEN /\ msgs' = Append(msgs, Msg(NONE, "Invalid JSON response"))
            /\ exc' = [type |-> "ValidationError", msg |-> "Invalid JSON response"]
            /\ pc' = "except_send_payload"
            /\ UNCHANGED << kra_responses, uncommitted, error_log >>
       ELSE IF ~(RequiredFields \subseteq DOMAIN response.data)
       THEN /\ msgs' = Append(msgs, Msg(NONE, "Missing required fields"))
            /\ exc' = [type |-> "ValidationError", msg |-> "Missing required fields"]
            /\ pc' = "except_send_payload"
            /\ UNCHANGED << kra_responses, uncommitted, error_log >>
       ELSE /\ error_log' = Append(error_log, "TIMS Success")
            /\ LET t == InsertAndCommit(kra_responses, uncommitted,
                            KraRow(doc.name, response.data["CUIN"],
                                   response.data["ResponseCode"]))
               IN /\ kra_responses' = t.committed
                  /\ uncommitted' = t.pending
            /\ IF Accepted(response.data)
               THEN /\ pc' = "update_doc_with_response"
                    /\ UNCHANGED << msgs, exc >>
               ELSE /\ msgs' = Append(msgs, Msg("KRA Error", "KRA submission failed"))
                    /\ exc' = [type |-> "ValidationError", msg |-> "KRA submission failed"]
                    /\ pc' = "except_send_payload"
    /\ UNCHANGED << doc, buildLocals, device_setup, doc_loaded, kra_before, db,
                    pure, response, posted >>

\* update_doc_with_response, lines 328-339: the fields are set, then save()
\* and, for a draft, submit() each succeed or raise
UpdateDocWithResponse ==
    /\ pc = "update_doc_with_response"
    /\ LET conf == [custom_tims_code    |-> response.data["ResponseCode"],
                    custom_tsin         |-> response.data["TSIN"],
                    custom_cusn         |-> response.data["CUSN"],
                    custom__cuin        |-> response.data["CUIN"],
                    custom_kra_qr_code  |-> response.data["QRCode"],
                    custom_signing_time |-> response.data["dtStmp"],
                    custom_sent_to_kra  |-> 1]
       IN \E saved \in BOOLEAN, submitted \in BOOLEAN :
             IF ~saved
             THEN /\ doc' = [doc EXCEPT !.conf = conf]
                  /\ exc' = [type |-> "Exception", msg |-> "save"]
                  /\ pc' = "except_send_payload"
             ELSE IF doc.docstatus = 0 /\ ~submitted
             THEN /\ doc' = [doc EXCEPT !.conf = conf]
                  /\ exc' = [type |-> "Exception", msg |-> "submit"]
                  /\ pc' = "except_send_payload"
             ELSE /\ doc' = [doc EXCEPT !.conf = conf, !.docstatus = 1]
                  /\ exc' = exc
                  /\ pc' = "returned"
    /\ UNCHANGED << buildLocals, stored, pure, response, posted, msgs,
                    error_log >>

\* send_payload, lines 279-280: handle_exception, and send_payload returns
ExceptSendPayload ==
    /\ pc = "except_send_payload"
    /\ error_log' = HandledLog
    /\ msgs' = HandledMsgs
    /\ exc' = NoExc
    /\ pc' = "returned"
    /\ UNCHANGED << doc, buildLocals, stored, pure, response, posted >>

\* send_request, lines 30-31: handle_exception, and send_request returns
ExceptSendRequest ==
    /\ pc = "except_send_request"
    /\ error_log' = HandledLog
    /\ msgs' = HandledMsgs
    /\ exc' = NoExc
    /\ pc' = "returned"
    /\ UNCHANGED << doc, buildLocals, stored, pure, response, posted >>

Next ==
    \/ SendRequest
    \/ BuildPayload
    \/ ClassifyItem
    \/ CreatePayload
    \/ ValidatePayload
    \/ SendPayload
    \/ ExceptTimeout
    \/ ExceptRequestException
    \/ HandleResponse
    \/ UpdateDocWithResponse
    \/ ExceptSendPayload
    \/ ExceptSendRequest

Spec == Init /\ [][Next]_vars

(***************************************************************************)
(* build_payload alone, over every kind of line                            *)
(***************************************************************************)

InitBuild ==
    InitProcess({ d \in DeviceSetups : d.status = "Active" /\ d.ip # "" },
                { id \in DocIdentities : ~id.is_return }, { TRUE },
                { st \in DocStates : st.docstatus = 0 },
                Lists(Rows, MaxItems), { << >>, PIN_OK, PIN_BAD }, { 0 },
                { << >> })

AssembleNext ==
    \/ SendRequest
    \/ BuildPayload
    \/ ClassifyItem
    \/ CreatePayload

SpecBuild == InitBuild /\ [][AssembleNext]_vars

(***************************************************************************)
(* The pure functions on their own: Init draws the argument, the action    *)
(* applies the function                                                    *)
(***************************************************************************)

\* the variables of send_request at rest
Idle ==
    /\ device_setup = CHOOSE d \in DeviceSetups : d.status = "Inactive"
    /\ doc = MakeDoc(CHOOSE id \in DocIdentities : ~id.is_return,
                     CHOOSE st \in DocStates : st.docstatus = 0, TRUE, 0, 0)
    /\ doc_loaded = doc
    /\ db = [tax_id |-> << >>, items |-> << >>, included_in_print_rate |-> 0]
    /\ kra_responses = << >>
    /\ kra_before = << >>
    /\ Locals

process == << device_setup, doc, doc_loaded, kra_before, db, kra_responses,
              uncommitted, tax_category, customer_pin, rct_no, items, item_log,
              payload, response, posted, msgs, error_log, exc >>

\* ---- update_vat_values ----

\* calls of update_vat_values in a row
MaxCalls == 3

Labels == { Templates[t].title : t \in DOMAIN Templates }

\* amounts passed to the aggregator: nothing, half a cent, 1.16
Amounts == { 0, Scale \div 2, 116 * Scale }

InitVat ==
    /\ pc = "update_vat_values"
    /\ Idle
    /\ arg = [tax_type |-> << >>, taxable_amount |-> 0, tax_amount |-> 0]
    /\ res = NONE

UpdateVat ==
    /\ pc = "update_vat_values"
    /\ idx < MaxCalls
    /\ \E l \in Labels, net \in Amounts, tax \in Amounts :
          /\ arg' = [tax_type |-> l, taxable_amount |-> net, tax_amount |-> tax]
          /\ vat_values' = update_vat_values(vat_values, l, net, tax).vat
    /\ idx' = idx + 1
    /\ UNCHANGED << pc, process, res >>

SpecVat == InitVat /\ [][UpdateVat]_vars

\* ---- calculate_tax ----

\* largest quantity of a line
MaxQty == 2

\* unit prices of a line, in cents, of either sign
Prices == { 0 - 116, 0, 100, 116 }

InitTax ==
    /\ pc = "calculate_tax"
    /\ Idle
    /\ \E q \in (0 - MaxQty)..MaxQty, r \in Prices, l \in TaxLinks,
          c \in { "Inclusive", "Exclusive" } :
          arg = [item |-> Row([item_code |-> "PEN", qty |-> q, rate |-> r], l),
                 category |-> c]
    /\ res = NONE

CalculateTax ==
    /\ pc = "calculate_tax"
    /\ res' = calculate_tax(Templates, arg.item, arg.category)
    /\ pc' = "classified"
    /\ UNCHANGED << process, vat_values, idx, arg >>

SpecTax == InitTax /\ [][CalculateTax]_vars

\* ---- format_invoice_number ----

\* pieces an invoice name is put together from
MaxPieces == 4

Pieces == { ACC,
            ACC \o << "S", "I", "N", "V" >>,
            << "-", "2", "0", "2", "4" >>,
            << "-", "0", "0", "0", "0", "7" >>,
            << "-" >>,
            << "S", "A", "L", "E", "S", "I", "N", "V", "O", "I", "C", "E" >> }

InitFormat ==
    /\ pc = "format_invoice_number"
    /\ Idle
    /\ arg \in { Concat(l) : l \in Lists(Pieces, MaxPieces) }
    /\ res = NONE

FormatInvoiceNumber ==
    /\ pc = "format_invoice_number"
    /\ res' = format_invoice_number(arg)
    /\ pc' = "formatted"
    /\ UNCHANGED << process, vat_values, idx, arg >>

SpecFormat == InitFormat /\ [][FormatInvoiceNumber]_vars

\* ---- validate_payload ----

\* largest bucket amount of a payload, in cents
MaxCents == 4

BucketPayload(a_net, a, e_net, f_net, data) ==
    [create_payload(MakeDoc(CHOOSE id \in DocIdentities : ~id.is_return,
                            CHOOSE st \in DocStates : st.docstatus = 0,
                            TRUE, 0, 0),
                    << >>, initialize_vat_values, data, "Credit", << >>, "",
                    << >>)
        EXCEPT !.VAT_A_Net = a_net, !.VAT_A = a, !.VAT_E_Net = e_net,
               !.VAT_F_Net = f_net, !.total = a_net + a + e_net + f_net,
               !.Paid = a_net + a + e_net + f_net]

Line(code, q, price) ==
    [productCode |-> code, quantity |-> q, unitPrice |-> price, discount |-> 0,
     taxtype |-> 0]

InitValidate ==
    /\ pc = "validate_payload"
    /\ Idle
    /\ \E a_net \in { 0, MaxCents, 100 }, a \in 0..MaxCents,
          e_net \in 0..MaxCents, f_net \in { 0, 3 },
          data \in { << >>, << Line("PEN", 1, 100) >>,
                     << Line("PEN", 1, 100), Line("GIFT", 1, 0) >>,
                     << Line("NIL", 0, 100), Line("GIFT", 1, 0) >> },
          dg \in (0 - 2)..2, dt \in (0 - 2)..2, compensated \in BOOLEAN :
          /\ a_net + a + e_net + f_net + dg >= 0
          /\ a + dt >= 0
          /\ arg = [payload |-> BucketPayload(a_net, a, e_net, f_net, data),
                    doc |-> [grand_total |-> a_net + a + e_net + f_net + dg,
                             total_taxes_and_charges |-> a + dt],
                    compensated |-> compensated]
    /\ res = NONE

Validate ==
    /\ pc = "validate_payload"
    /\ res' = validate_payload(arg.payload, arg.doc, arg.compensated)
    /\ pc' = "validated"
    /\ UNCHANGED << process, vat_values, idx, arg >>

SpecValidate == InitValidate /\ [][Validate]_vars

(***************************************************************************)
(* Properties                                                              *)
(***************************************************************************)

Magnitude(x) == IF x < 0 THEN 0 - x ELSE x

RECURSIVE SumKeys(_, _)
SumKeys(vv, K) ==
    IF K = { } THEN 0
    ELSE LET k == CHOOSE x \in K : TRUE IN vv[k] + SumKeys(vv, K \ { k })

NetKeys == { "VAT_A_NET", "VAT_B_NET", "VAT_C_NET", "VAT_D_NET", "VAT_E_NET",
             "VAT_F_NET" }

TaxKeysAtoD == { "VAT_A", "VAT_B", "VAT_C", "VAT_D" }

HasTitle(t) == \E i \in 1..Len(msgs) : msgs[i].title = t

\* C1: from initialize_vat_values on, whatever labels and amounts
\* update_vat_values is called with, the tax entries of buckets E and F stay 0
C1_ExemptBucketsCarryNoTax ==
    vat_values["VAT_E"] = 0 /\ vat_values["VAT_F"] = 0

\* a call that passed a tax amount with the Exempt label has been made
C1_Witness ==
    /\ pc = "update_vat_values"
    /\ arg.tax_type = L_Exempt
    /\ arg.tax_amount > 0
    /\ vat_values["VAT_F_NET"] > 0
    /\ vat_values["VAT_E_NET"] > 0

\* C2: the payload's total and Paid are the six bucket nets plus the taxes of
\* buckets A to D, rounded to cents when the payload is built
C2_TotalIsNetsPlusTaxesAtoD ==
    pc = "validate_payload" =>
        /\ payload.total =
               Round2(SumKeys(vat_values, NetKeys) + SumKeys(vat_values, TaxKeysAtoD))
        /\ payload.Paid = payload.total

\* a payload built over a taxed line and an exempt line
C2_Witness ==
    /\ pc = "validate_payload"
    /\ vat_values["VAT_A"] > 0
    /\ vat_values["VAT_F_NET"] > 0
    /\ payload.total > 0

\* C3: format_invoice_number returns at most 18 characters, returns a name of
\* at most 18 characters unchanged, and maps its own result to itself
C3_FormatBounded ==
    pc = "formatted" =>
        /\ Len(res) <= MaxLen
        /\ (Len(arg) <= MaxLen => res = arg)
        /\ format_invoice_number(res) = res

\* a three-part name whose series is so long that the result is cut to 18
C3_Witness ==
    /\ pc = "formatted"
    /\ Len(arg) > MaxLen
    /\ Len(Split(Replace(arg, ACC), "-")) = 3
    /\ Len(Split(Replace(arg, ACC), "-")[1]) > MaxLen
    /\ Len(res) = MaxLen

\* the response is HTTP-ok, parses, holds the seven fields and carries "000"
FullyAccepted ==
    /\ response.kind = "response"
    /\ response.ok
    /\ response.json
    /\ RequiredFields \subseteq DOMAIN response.data
    /\ response.data["ResponseCode"] = "000"

\* C4: the confirmation fields of the invoice differ from the loaded ones only
\* after a fully accepted response; on every other path they are untouched
C4_ConfirmationOnlyAfterAccepted ==
    /\ ~FullyAccepted => doc.conf = doc_loaded.conf /\ doc.docstatus = doc_loaded.docstatus
    /\ doc.conf # doc_loaded.conf => pc \in { "returned", "except_send_payload" }

\* an unsent invoice confirmed by an accepted response
C4_Witness ==
    /\ pc = "returned"
    /\ FullyAccepted
    /\ doc_loaded.conf.custom_sent_to_kra = 0
    /\ doc.conf.custom_sent_to_kra = 1
    /\ doc.conf.custom__cuin = "CUIN-1"

ValidationMessages ==
    { "Total mismatch", "Tax mismatch", "Invalid quantity", "Invalid unit price" }

\* validate_payload has thrown
ValidationFailed == \E i \in 1..Len(msgs) : msgs[i].msg \in ValidationMessages

\* validate_payload returns on the payload built
PassesValidation ==
    /\ payload.saleType # NONE
    /\ \E c \in BOOLEAN : validate_payload(payload, doc, c) = ""

\* C5: the POST is issued only for a payload validate_payload has passed; when
\* it fails nothing is posted, no KRA Response row is created, and its error
\* reaches send_request as an exception with the message shown to the caller
C5_TransmitOnlyValidated ==
    /\ posted => PassesValidation /\ ~ValidationFailed
    /\ pc \in { "send_payload", "handle_response", "update_doc_with_response" }
           => PassesValidation
    /\ ValidationFailed =>
           /\ ~posted
           /\ response = NoResponse
           /\ kra_responses = kra_before
           /\ uncommitted = << >>
           /\ pc \in { "except_send_request", "returned" }
           /\ pc = "except_send_request" =>
                  exc.type = "ValidationError" /\ exc.msg \in ValidationMessages

\* a send_request that ended on a validation failure
C5_Witness ==
    /\ pc = "returned"
    /\ ValidationFailed
    /\ ~posted
    /\ HasTitle("Error Message")

\* the device answered, with every field, a code other than "000"
Rejected ==
    /\ response.kind = "response"
    /\ response.ok
    /\ response.json
    /\ RequiredFields \subseteq DOMAIN response.data
    /\ response.data["ResponseCode"] # "000"

\* the rejected response is among the committed KRA Response rows
RejectionRecorded ==
    /\ Len(kra_responses) = Len(kra_before) + 1
    /\ kra_responses[Len(kra_responses)] =
           KraRow(doc.name, response.data["CUIN"], response.data["ResponseCode"])

\* C7: a rejection is committed as a KRA Response row before its error is
\* raised, and what send_request leaves for its caller names it "KRA Error",
\* which no timeout or connection failure does
C7_RejectionRecordedAndDistinct ==
    /\ Rejected /\ pc \in { "except_send_payload", "returned" } => RejectionRecorded
    /\ Rejected /\ pc = "except_send_payload" => exc.msg = "KRA submission failed"
    /\ Rejected /\ pc = "returned" =>
           /\ HasTitle("KRA Error")
           /\ ~HasTitle("Timeout Error")
           /\ ~HasTitle("Connection Error")
    /\ response.kind \in { "Timeout", "RequestException" } /\ pc = "returned" =>
           /\ ~HasTitle("KRA Error")
           /\ HasTitle("Timeout Error") \/ HasTitle("Connection Error")

\* a send_request that ended on a recorded rejection
C7_Witness ==
    /\ pc = "returned"
    /\ Rejected
    /\ RejectionRecorded
    /\ HasTitle("KRA Error")

\* C8: a return's payload is a refund whose cuin is the CUIN of the KRA
\* Response recorded for the invoice it returns; a sale's cuin is empty
C8_RefundCitesOriginal ==
    payload.saleType # NONE =>
        IF doc.is_return
        THEN /\ payload.saleType = "refund"
             /\ payload.cuin = get_cuin(kra_before, doc.return_against)
        ELSE payload.saleType = "sales" /\ payload.cuin = ""

ZeroRated(item) ==
    \/ item.item_tax_template = NONE
    \/ get_tax_rate_from_template(Templates, item.item_tax_template) = 0

\* C9: a line without a template, or whose template resolves to rate 0, has
\* tax 0, taxable |unitPrice| * |quantity| and taxtype 0, whatever the category
C9_ZeroRatedLine ==
    pc = "classified" /\ ZeroRated(arg.item) =>
        /\ res.tax_amount = 0
        /\ res.taxable_amount
               = Magnitude(arg.item.rate) * Magnitude(arg.item.qty) * Scale
        /\ res.new_item.taxtype = 0
        /\ \A c \in { "Inclusive", "Exclusive" } :
               calculate_tax(Templates, arg.item, c) = res

\* an Inclusive line of negative quantity whose template resolves to rate 0
C9_Witness ==
    /\ pc = "classified"
    /\ arg.item.item_tax_template # NONE
    /\ ZeroRated(arg.item)
    /\ arg.category = "Inclusive"
    /\ arg.item.qty < 0
    /\ arg.item.rate > 0
    /\ res.taxable_amount > 0

\* the line is missing its template
NoTemplate(row) == row.item_tax_template = NONE

\* the line's label matches no mapping entry
Unmapped(row) == row.title # << >> /\ FirstMatch(row.title) = 0

\* the line's net goes to bucket E
GoesToE(row) ==
    \/ row.title = << >>
    \/ FirstMatch(row.title) = 0
    \/ kra_tax_mapping[FirstMatch(row.title)].net_key = "VAT_E_NET"

RECURSIVE NetOfE(_, _)
\* the taxable amounts of the first k rows that go to bucket E
NetOfE(rows, k) ==
    IF k = 0 THEN 0
    ELSE NetOfE(rows, k - 1)
         + (IF GoesToE(rows[k])
            THEN calculate_tax(Templates, rows[k], tax_category).taxable_amount
            ELSE 0)

\* what C10 says apart from the logging of each line
C10_Degrades ==
    /\ pc \in { "build_payload", "loop" } =>
           /\ exc = NoExc
           /\ idx <= Len(db.items)
    /\ pc \in { "loop", "validate_payload" } =>
           /\ Len(items) = idx
           /\ Len(item_log) = idx
           /\ vat_values["VAT_E_NET"] = NetOfE(db.items, idx)
           /\ vat_values["VAT_E"] = 0
           /\ db.tax_id # << >> /\ ~MatchesPin(db.tax_id) =>
                  \E i \in 1..Len(error_log) : error_log[i] = "TIMS Validation"
    /\ pc = "validate_payload" =>
           /\ Len(payload.data) = Len(db.items)
           /\ \A k \in 1..Len(db.items) :
                  payload.data[k].productCode = db.items[k].item_code

\* C10 as claimed: anomalies never stop build_payload, and every line with a
\* missing template, an empty label or an unmapped label is logged
C10_EveryAnomalyLogged ==
    /\ C10_Degrades
    /\ pc \in { "loop", "validate_payload" } =>
           \A k \in 1..idx :
               NoTemplate(db.items[k]) \/ db.items[k].title = << >>
                   \/ Unmapped(db.items[k])
               => item_log[k] # << >>

\* C10 as the code has it: anomalies never stop build_payload; a line with a
\* missing template or an unmapped label is logged, an empty label on a line
\* that has a template is defaulted to bucket E without a log entry
C10_AnomaliesDegrade ==
    /\ C10_Degrades
    /\ pc \in { "loop", "validate_payload" } =>
           \A k \in 1..idx :
               /\ NoTemplate(db.items[k]) \/ Unmapped(db.items[k])
                      => item_log[k] # << >>
               /\ ~NoTemplate(db.items[k]) /\ db.items[k].title = << >>
                      => item_log[k] = << >>

\* a payload built over a line with a template and an empty label and a line
\* with an unmapped label, for a customer whose PIN is malformed
C10_Witness ==
    /\ pc = "validate_payload"
    /\ idx = 2
    /\ ~NoTemplate(db.items[1]) /\ db.items[1].title = << >>
    /\ Unmapped(db.items[2])
    /\ item_log[1] = << >> /\ item_log[2] # << >>
    /\ db.tax_id = PIN_BAD
    /\ vat_values["VAT_E_NET"] > 0

\* C6: validate_payload reports a total mismatch exactly when the buckets'
\* sum is more than 0.01 from grand_total, and otherwise a tax mismatch
\* exactly when the taxes of A to D are more than 0.01 from
\* total_taxes_and_charges; a difference of exactly 0.01 passes
C6_ToleranceIsOneCent ==
    pc = "validated" =>
        LET p     == arg.payload
            total == (p.VAT_A_Net + p.VAT_A) + (p.VAT_B_Net + p.VAT_B)
                     + (p.VAT_C_Net + p.VAT_C) + (p.VAT_D_Net + p.VAT_D)
                     + p.VAT_E_Net + p.VAT_F_Net
            tax   == p.VAT_A + p.VAT_B + p.VAT_C + p.VAT_D
        IN /\ res = "Total mismatch"
                  <=> Magnitude(total - arg.doc.grand_total) > Tolerance
           /\ res # "Total mismatch" =>
                  (res = "Tax mismatch"
                      <=> Magnitude(tax - arg.doc.total_taxes_and_charges) > Tolerance)

====
